---- MODULE Spec2Model ----
(***************************************************************************)
(* A model of the job pipeline of server.js: the registry processingJobs,  *)
(* the AudioProcessor class (updateStep, convertAudioToWav,                *)
(* transcribeAudio, generateSummary, attachToHubspot, process, cleanup)    *)
(* and the three request handlers that use it.                             *)
(*                                                                         *)
(* Granularity.  Node runs one callback at a time and drains the promise   *)
(* (microtask) queue before it takes the next event, so an action here is  *)
(* one event callback together with every promise continuation it wakes:   *)
(* a child-process 'close' handler that resolves runs on into process()    *)
(* up to the next spawn, timer or file-system call; one that rejects runs  *)
(* on into the catch block of process().  A request handler can only be    *)
(* scheduled between two such actions.                                     *)
(*                                                                         *)
(* Storage.  disk holds the converted audio, the transcripts and the       *)
(* summaries.  The text file whisper-cli leaves is an input of the read    *)
(* (ReadFileDone) and is not kept on disk.  calls, written and failure     *)
(* record history: the spawns made, the paths used, the failure caught.    *)
(*                                                                         *)
(* Answers.  The handlers that only read answer with a function of the     *)
(* state they run in (StatusReply, AttachReply); their actions change      *)
(* nothing.                                                                *)
(***************************************************************************)
EXTENDS Integers, Sequences, FiniteSets, TLC

\* ------------------------------------------------------------ bounds
\* Number of submissions accepted.
MaxJobs == 2
\* The clock runs over the seconds 0..MaxTime.
MaxTime == 1
\* Post-hoc attachToHubspot calls of one job in flight at a time.
MaxAttach == 2
\* Submissions followed where the program is assumed to be fair.
FairJobs == 1

\* ------------------------------------------------------------ values
\* A JavaScript value that may be undefined: <<>> or <<v>>.
Undefined == <<>>
Some(v) == <<v>>

Ids == 1..MaxJobs
\* Identifiers a request may carry: the issued ones and one never issued.
RequestIds == 1..(MaxJobs + 1)

\* The request bodies a submission may carry: clientName, caseNumber and the
\* request to attach, strings being sequences of characters.
RequestBodies ==
    {[clientName |-> Some(<<"a", " ">>), caseNumber |-> Undefined,
      attachToHubspot |-> Some(<<"x">>)],
     [clientName |-> Undefined, caseNumber |-> Some(<<"a", "-">>),
      attachToHubspot |-> Undefined]}

\* A value an if takes for true: a string that is defined and not empty.
Truthy(v) == v # Undefined /\ v[1] # <<>>
\* What a tool can leave in its output file or on its standard output.
RawTexts == {<<" ">>, <<" ", "x", " ">>}
\* Exit codes of a tool that was launched.
ExitCodes == {0, 1}
\* The code 'close' reports after a failed launch.
LaunchFailedCode == 0 - 2

StageNames == <<"conversion", "transcription", "summary", "hubspot">>
Tools == {"conversion", "transcription", "summary"}

\* String.prototype.trim
RECURSIVE TrimLeft(_)
TrimLeft(s) ==
    IF s # <<>> /\ Head(s) = " " THEN TrimLeft(Tail(s)) ELSE s

RECURSIVE TrimRight(_)
TrimRight(s) ==
    IF s # <<>> /\ s[Len(s)] = " " THEN TrimRight(SubSeq(s, 1, Len(s) - 1)) ELSE s

Trim(s) == TrimRight(TrimLeft(s))

\* The characters of the model that match [a-zA-Z0-9].
AlphaNumeric == {"a", "x"}

\* s.replace(/[^a-zA-Z0-9]/g, '-')
Sanitize(s) == [i \in 1..Len(s) |-> IF s[i] \in AlphaNumeric THEN s[i] ELSE "-"]

\* clientInfo / caseInfo: '_' + sanitized value, or '' for a falsy value.
InfoPart(v) ==
    IF v = Undefined \/ v[1] = <<>> THEN <<>> ELSE <<"_">> \o Sanitize(v[1])

\* new Date().toISOString().slice(0, 19): the time to the second.
Timestamp(t) == ToString(t)

ArtifactName(prefix, t, metadata) ==
    <<prefix, Timestamp(t)>> \o InfoPart(metadata.clientName)
        \o InfoPart(metadata.caseNumber) \o <<".txt">>

TranscriptPath(t, metadata) == <<"transcripts/">> \o ArtifactName("transcript_", t, metadata)
SummaryPath(t, metadata) == <<"summaries/">> \o ArtifactName("summary_", t, metadata)
WavPath(id) == <<"temp/", ToString(id), ".wav">>

\* ------------------------------------------------------------ state
VARIABLES
    processingJobs, \* the registry: a Map from processId to AudioProcessor
    pc,             \* per job: what its process() call is waiting for
    lateClose,      \* per job: the stage whose child still owes its 'close'
    attaching,      \* per job: post-hoc attachToHubspot calls in flight
    cleanupState,   \* per job: the unlink issued by cleanup()
    calls,          \* per job and stage: adapter invocations so far
    written,        \* per job: the paths it has handed to a tool or a write
    failure,        \* per job: the kind of adapter failure that ended it
    disk,           \* the files on stable storage
    now             \* the clock

vars == <<processingJobs, pc, lateClose, attaching, cleanupState, calls,
          written, failure, disk, now>>

NoFailure == [kind |-> "none", stage |-> "none"]
NoData == [x \in {} |-> x]

\* A lookup that answers an unknown key with a fresh default record.
GetOrDefault(id) ==
    IF id \in DOMAIN processingJobs THEN Some(processingJobs[id])
    ELSE Some([processId |-> id, status |-> "started", metadata |-> NoData,
               steps |-> NoData, results |-> NoData, error |-> Undefined])

\* Map.prototype.get: the stored object, or undefined.
Get(id) == IF id \in DOMAIN processingJobs THEN Some(processingJobs[id]) ELSE Undefined

\* A registry that keeps the last record only.
PutAlone(job) == [id \in {job.processId} |-> job]

\* A registry whose records share one steps object.
PutSharedSteps(job) ==
    [id \in DOMAIN processingJobs \cup {job.processId} |->
        IF id = job.processId THEN job
        ELSE [processingJobs[id] EXCEPT !.steps = job.steps]]

\* Map.prototype.set
Put(job) == [id \in DOMAIN processingJobs \cup {job.processId} |->
                IF id = job.processId THEN job ELSE processingJobs[id]]

\* new AudioProcessor(processId, audioFile, metadata)
NewProcessor(processId, audioFile, metadata) ==
    [processId |-> processId,
     audioFile |-> audioFile,
     metadata |-> metadata,
     status |-> "started",
     steps |-> [conversion |-> [status |-> "pending"],
                transcription |-> [status |-> "pending"],
                summary |-> [status |-> "pending"],
                hubspot |-> [status |-> "pending"]],
     results |-> [wavFile |-> Undefined, transcription |-> Undefined,
                  summary |-> Undefined],
     error |-> Undefined]

\* updateStep(stepName, status, data): the step object is replaced.
updateStep(job, stepName, status, data) ==
    [job EXCEPT !.steps[stepName] = data @@ [status |-> status]]

\* What a promise executor or event handler did with the promise.
Resolved(job) == [job |-> job, settled |-> "resolved", message |-> ""]
Rejected(job, message) == [job |-> job, settled |-> "rejected", message |-> message]
Pending(job) == [job |-> job, settled |-> "pending", message |-> ""]

\* The catch block of process().
ProcessCatch(job, message) ==
    [job EXCEPT !.status = "error", !.error = Some(message)]

\* A test that takes an absent key for a request.
AttachRequestedUnlessAbsent(metadata) ==
    "attachToHubspot" \notin DOMAIN metadata \/ Truthy(metadata.attachToHubspot)

\* this.metadata.attachToHubspot: a key the metadata may not have.
AttachRequested(metadata) ==
    "attachToHubspot" \in DOMAIN metadata /\ Truthy(metadata.attachToHubspot)

SpawnError(tool) == "spawn " \o tool \o " failed"

\* The synchronous part of a stage method: updateStep(stage, 'processing'),
\* then the promise executor, where spawn either returns a child or throws.
\* A throw in the executor rejects the promise; the method returns that
\* promise without awaiting it, so its own catch block does not run and the
\* stage is left as it is.
StartTool(job, stage, tool, launch) ==
    LET started == updateStep(job, stage, "processing", NoData)
    IN IF launch = "throws"
       THEN Rejected(started, SpawnError(tool))
       ELSE Pending(started)

LaunchOutcomes == {"spawned", "throws"}

\* A 'close' handler that marks the failed conversion and resolves.
ConvertOnCloseResolves(job, code) ==
    IF code = 0
    THEN LET outputPath == WavPath(job.processId)
         IN Resolved([updateStep(job, "conversion", "completed",
                                 [outputPath |-> outputPath])
                         EXCEPT !.results.wavFile = Some(outputPath)])
    ELSE Resolved(updateStep(job, "conversion", "error",
                             [error |-> "FFmpeg conversion failed"]))

\* A 'close' handler that resolves without marking the stage.
ConvertOnCloseUnrecorded(job, code) ==
    IF code = 0
    THEN Resolved([job EXCEPT !.results.wavFile = Some(WavPath(job.processId))])
    ELSE Rejected(updateStep(job, "conversion", "error",
                             [error |-> "FFmpeg conversion failed"]),
                  "FFmpeg failed with code " \o ToString(code))

\* convertAudioToWav, ffmpeg.on('close')
ConvertOnClose(job, code) ==
    IF code = 0
    THEN LET outputPath == WavPath(job.processId)
         IN Resolved([updateStep(job, "conversion", "completed",
                                 [outputPath |-> outputPath])
                         EXCEPT !.results.wavFile = Some(outputPath)])
    ELSE Rejected(updateStep(job, "conversion", "error",
                             [error |-> "FFmpeg conversion failed"]),
                  "FFmpeg failed with code " \o ToString(code))

\* convertAudioToWav, ffmpeg.on('error')
ConvertOnError(job) ==
    Rejected(updateStep(job, "conversion", "error", [error |-> SpawnError("ffmpeg")]),
             SpawnError("ffmpeg"))

\* transcribeAudio, whisper.on('close'), up to the timer
TranscribeOnClose(job, code) ==
    IF code = 0
    THEN Pending(job)
    ELSE Rejected(updateStep(job, "transcription", "error",
                             [error |-> "Whisper-cli failed with code " \o ToString(code)]),
                  "Whisper-cli failed with code " \o ToString(code))

\* transcribeAudio, whisper.on('error')
TranscribeOnError(job) ==
    Rejected(updateStep(job, "transcription", "error",
                        [error |-> SpawnError("whisper-cli")]),
             SpawnError("whisper-cli"))

\* The catch block around the read and the write of the transcript.
TranscribeCatch(job, message) ==
    Rejected(updateStep(job, "transcription", "error",
                        [error |-> "Failed to read transcript file"]),
             message)

\* transcribeAudio, after fs.readFile: read is Undefined when it threw.
TranscribeAfterRead(job, read) ==
    IF read = Undefined
    THEN TranscribeCatch(job, "ENOENT: no such file or directory")
    ELSE Pending([updateStep(job, "transcription", "completed", NoData)
                     EXCEPT !.results.transcription = Some(Trim(read[1]))])

\* A failed write that is marked on the stage and otherwise ignored.
TranscribeAfterWriteIgnored(job, ok) ==
    IF ok THEN Pending(job)
    ELSE Pending(updateStep(job, "transcription", "error",
                            [error |-> "Failed to read transcript file"]))

\* transcribeAudio, after fs.writeFile of the transcript
TranscribeAfterWrite(job, ok) ==
    IF ok THEN Pending(job) ELSE TranscribeCatch(job, "EACCES: permission denied")

\* The test of ollama.on('close')
SummaryUsable(code, stdout) == code = 0 /\ Trim(stdout) # <<>>

\* generateSummary, ollama.on('close'), up to the write of the summary
SummaryOnClose(job, code, stdout) ==
    IF SummaryUsable(code, stdout)
    THEN Pending([updateStep(job, "summary", "completed", NoData)
                     EXCEPT !.results.summary = Some(Trim(stdout))])
    ELSE Rejected(updateStep(job, "summary", "error",
                             [error |-> "Summary generation failed"]),
                  "Ollama failed with code " \o ToString(code))

\* generateSummary, ollama.on('error')
SummaryOnError(job) ==
    Rejected(updateStep(job, "summary", "error", [error |-> SpawnError("ollama")]),
             SpawnError("ollama"))

\* generateSummary, after fs.writeFile of the summary: a failure is logged.
SummaryAfterWrite(job, ok) == Resolved(job)

\* A call that also puts the job back to processing.
AttachBeginReopens(job) ==
    [updateStep(job, "hubspot", "processing", NoData) EXCEPT !.status = "processing"]

\* attachToHubspot, up to the timer
AttachBegin(job) == updateStep(job, "hubspot", "processing", NoData)

\* A continuation that returns without marking the stage.
AttachEndUnmarked(job) == job

\* attachToHubspot, after the timer
AttachEnd(job) == updateStep(job, "hubspot", "completed", NoData)

\* An end of process() that leaves the status as it is.
ProcessCompleteUnset(job) == job

\* process(), after the last stage
ProcessComplete(job) == [job EXCEPT !.status = "completed"]

\* cleanup(): whether it issues the unlink of the converted audio
CleanupIssues(job) == job.results.wavFile # Undefined

\* fs.writeFile and fs.unlink on the model's storage
\* (a file is its path and the job whose data it holds)
WriteFile(files, path, id) ==
    {f \in files : f.path # path} \cup {[path |-> path, by |-> id]}
Unlink(files, path) == {f \in files : f.path # path}

Bump(f, id, stage) == [f EXCEPT ![id][stage] = @ + 1]

\* --------------------------------------------- the steps of process()
\* What one step of process() leaves behind for its job: the record, where
\* process() waits next, the failure that ended it, the adapter it invoked.
Failed(o, kind, stage) ==
    [job |-> ProcessCatch(o.job, o.message), pc |-> "done",
     failure |-> [kind |-> kind, stage |-> stage], call |-> "none"]

Waiting(job, at) == [job |-> job, pc |-> at, failure |-> NoFailure, call |-> "none"]

\* process() enters a stage method that spawns a tool.
EnterStage(job, stage, tool, launch) ==
    LET o == StartTool(job, stage, tool, launch)
    IN IF o.settled = "rejected"
       THEN [Failed(o, "launch", stage) EXCEPT !.call = stage]
       ELSE [Waiting(o.job, tool) EXCEPT !.call = stage]

\* process() after generateSummary: the optional attach, or the end.
AfterSummary(job) ==
    IF AttachRequested(job.metadata)
    THEN [Waiting(AttachBegin(job), "hubspot") EXCEPT !.call = "hubspot"]
    ELSE Waiting(ProcessComplete(job), "done")

Apply(id, r) ==
    /\ processingJobs' = Put(r.job)
    /\ pc' = [pc EXCEPT ![id] = r.pc]
    /\ failure' = [failure EXCEPT ![id] = r.failure]
    /\ calls' = IF r.call = "none" THEN calls ELSE Bump(calls, id, r.call)
    /\ cleanupState' = IF r.job.status = "completed" /\ CleanupIssues(r.job)
                       THEN [cleanupState EXCEPT ![id] = "issued"]
                       ELSE cleanupState

Running(id, at) == id \in DOMAIN processingJobs /\ pc[id] = at

Init ==
    /\ processingJobs = [id \in {} |-> id]
    /\ pc = [id \in Ids |-> "none"]
    /\ lateClose = [id \in Ids |-> "none"]
    /\ attaching = [id \in Ids |-> 0]
    /\ cleanupState = [id \in Ids |-> "none"]
    /\ calls = [id \in Ids |-> [s \in {"conversion", "transcription", "summary", "hubspot"} |-> 0]]
    /\ written = [id \in Ids |-> {}]
    /\ failure = [id \in Ids |-> NoFailure]
    /\ disk = {}
    /\ now = 0

\* The clock advances.
Tick ==
    /\ now < MaxTime
    /\ now' = now + 1
    /\ UNCHANGED <<processingJobs, pc, lateClose, attaching, cleanupState, calls,
                   written, failure, disk>>

\* --------------------------------------------------------- actions
\* A request handler's answer is a function of the state it runs in: it is
\* an operator here (StatusReply, AttachReply, ...), and a handler that only
\* answers leaves every variable unchanged.

\* POST /api/process-audio without a file answers 400.
NoFileReply == [code |-> 400, error |-> "No audio file provided"]

SubmitNoFile == UNCHANGED vars

\* uuidv4(): an identifier no earlier submission got
FreshId == Cardinality(DOMAIN processingJobs) + 1

\* The metadata the submission handler builds from the request body (the
\* notes, the file name and the upload time, which nothing reads, are left
\* out).  No attachToHubspot is copied from the body.
SubmissionMetadata(body) ==
    [clientName |-> body.clientName, caseNumber |-> body.caseNumber]

\* The acknowledgment of a submission
SubmitReply(id) == [code |-> 200, processId |-> id, status |-> "started"]

\* The record the handler creates, after the first two lines of process().
Started(id, body) ==
    [NewProcessor(id, <<"uploads/", ToString(id)>>, SubmissionMetadata(body))
        EXCEPT !.status = "processing"]

\* The record in the registry when the handler sends the acknowledgment:
\* process() has run up to its first await, and a promise that was rejected
\* in between is handled only after the handler has returned.
AtAcknowledgment(id, body, launch) ==
    StartTool(Started(id, body), "conversion", "ffmpeg", launch).job

\* A handler that registers the record and leaves process() for later.
SubmitDeferred(body, launch) ==
    /\ Cardinality(DOMAIN processingJobs) < MaxJobs
    /\ processingJobs' = Put(NewProcessor(FreshId, <<"uploads/", ToString(FreshId)>>,
                                          SubmissionMetadata(body)))
    /\ UNCHANGED <<pc, lateClose, attaching, cleanupState, calls, written,
                   failure, disk, now>>

\* POST /api/process-audio: the record is created and process() runs, inside
\* the handler, up to the spawn of ffmpeg; then the acknowledgment is sent.
Submit(body, launch) ==
    /\ Cardinality(DOMAIN processingJobs) < MaxJobs
    /\ LET id == FreshId
           r == EnterStage(Started(id, body), "conversion", "ffmpeg", launch)
       IN /\ processingJobs' = Put(r.job)
          /\ pc' = [pc EXCEPT ![id] = r.pc]
          /\ failure' = [failure EXCEPT ![id] = r.failure]
          /\ calls' = Bump(calls, id, "conversion")
          /\ written' = [written EXCEPT ![id] = @ \cup {WavPath(id)}]
    /\ UNCHANGED <<lateClose, attaching, cleanupState, disk, now>>

\* ffmpeg closes; on success process() goes on into transcribeAudio.
FfmpegClose(id, code, launch) ==
    /\ Running(id, "ffmpeg")
    /\ LET o == ConvertOnClose(processingJobs[id], code)
       IN /\ Apply(id, IF o.settled = "rejected"
                       THEN Failed(o, "exit", "conversion")
                       ELSE EnterStage(o.job, "transcription", "whisper-cli", launch))
          /\ disk' = IF code = 0 THEN WriteFile(disk, WavPath(id), id) ELSE disk
    /\ UNCHANGED <<lateClose, attaching, written, now>>

\* ffmpeg could not be launched: 'error' now, 'close' later.
FfmpegError(id) ==
    /\ Running(id, "ffmpeg")
    /\ Apply(id, Failed(ConvertOnError(processingJobs[id]), "launch", "conversion"))
    /\ lateClose' = [lateClose EXCEPT ![id] = "conversion"]
    /\ UNCHANGED <<attaching, written, disk, now>>

\* whisper-cli closes.
WhisperClose(id, code) ==
    /\ Running(id, "whisper-cli")
    /\ LET o == TranscribeOnClose(processingJobs[id], code)
       IN Apply(id, IF o.settled = "rejected"
                    THEN Failed(o, "exit", "transcription")
                    ELSE Waiting(o.job, "timer"))
    /\ UNCHANGED <<lateClose, attaching, written, disk, now>>

WhisperError(id) ==
    /\ Running(id, "whisper-cli")
    /\ Apply(id, Failed(TranscribeOnError(processingJobs[id]), "launch", "transcription"))
    /\ lateClose' = [lateClose EXCEPT ![id] = "transcription"]
    /\ UNCHANGED <<attaching, written, disk, now>>

\* The one-second timer fires and fs.readFile is issued.
TimerFires(id) ==
    /\ Running(id, "timer")
    /\ Apply(id, Waiting(processingJobs[id], "readFile"))
    /\ UNCHANGED <<lateClose, attaching, written, disk, now>>

\* fs.readFile of whisper's text file ends: read is its content, or Undefined
\* when the file is absent or unreadable.  On success the stage is marked,
\* the result is stored and the write of the transcript is issued.
ReadFileDone(id, read) ==
    /\ Running(id, "readFile")
    /\ LET job == processingJobs[id]
           o == TranscribeAfterRead(job, read)
       IN /\ Apply(id, IF o.settled = "rejected"
                       THEN Failed(o, "artifact", "transcription")
                       ELSE Waiting(o.job, "writeTranscript"))
          /\ written' = IF o.settled = "rejected" THEN written
                        ELSE [written EXCEPT ![id] = @ \cup {TranscriptPath(now, job.metadata)}]
    /\ UNCHANGED <<lateClose, attaching, disk, now>>

\* The transcript path of a job: the one its write was issued with.
TranscriptOf(id) == {p \in written[id] : p[1] = "transcripts/"}
SummaryOf(id) == {p \in written[id] : p[1] = "summaries/"}

\* fs.writeFile of the transcript ends; on success the unlink is issued.
WriteTranscriptDone(id, ok) ==
    /\ Running(id, "writeTranscript")
    /\ LET job == processingJobs[id]
           o == TranscribeAfterWrite(job, ok)
       IN /\ Apply(id, IF o.settled = "rejected"
                       THEN Failed(o, "write", "transcription")
                       ELSE Waiting(o.job, "unlinkTxt"))
          /\ disk' = IF ok
                     THEN WriteFile(disk, CHOOSE p \in TranscriptOf(id) : TRUE, id)
                     ELSE disk
    /\ UNCHANGED <<lateClose, attaching, written, now>>

\* fs.unlink of whisper's text file ends (a failure is ignored); the promise
\* resolves and process() goes on into generateSummary.
UnlinkTxtDone(id, ok, launch) ==
    /\ Running(id, "unlinkTxt")
    /\ Apply(id, EnterStage(processingJobs[id], "summary", "ollama", launch))
    /\ UNCHANGED <<lateClose, attaching, written, disk, now>>

\* ollama closes; on success the write of the summary is issued.
OllamaClose(id, code, stdout) ==
    /\ Running(id, "ollama")
    /\ LET job == processingJobs[id]
           o == SummaryOnClose(job, code, stdout)
       IN /\ Apply(id, IF o.settled = "rejected"
                       THEN Failed(o, IF code = 0 THEN "empty" ELSE "exit", "summary")
                       ELSE Waiting(o.job, "writeSummary"))
          /\ written' = IF o.settled = "rejected" THEN written
                        ELSE [written EXCEPT ![id] = @ \cup {SummaryPath(now, job.metadata)}]
    /\ UNCHANGED <<lateClose, attaching, disk, now>>

OllamaError(id) ==
    /\ Running(id, "ollama")
    /\ Apply(id, Failed(SummaryOnError(processingJobs[id]), "launch", "summary"))
    /\ lateClose' = [lateClose EXCEPT ![id] = "summary"]
    /\ UNCHANGED <<attaching, written, disk, now>>

\* fs.writeFile of the summary ends; process() goes on to the optional
\* attach or to its end, where it calls cleanup().
WriteSummaryDone(id, ok) ==
    /\ Running(id, "writeSummary")
    /\ LET job == processingJobs[id]
           o == SummaryAfterWrite(job, ok)
       IN /\ Apply(id, AfterSummary(o.job))
          /\ disk' = IF ok
                     THEN WriteFile(disk, CHOOSE p \in SummaryOf(id) : TRUE, id)
                     ELSE disk
    /\ UNCHANGED <<lateClose, attaching, written, now>>

\* The 'close' that follows the 'error' of a failed launch: the handler runs
\* with a non-zero code and its reject finds the promise already settled.
LateClose(id) ==
    /\ id \in DOMAIN processingJobs
    /\ lateClose[id] # "none"
    /\ LET job == processingJobs[id]
           o == CASE lateClose[id] = "conversion" -> ConvertOnClose(job, LaunchFailedCode)
                  [] lateClose[id] = "transcription" -> TranscribeOnClose(job, LaunchFailedCode)
                  [] lateClose[id] = "summary" -> SummaryOnClose(job, LaunchFailedCode, <<>>)
       IN processingJobs' = Put(o.job)
    /\ lateClose' = [lateClose EXCEPT ![id] = "none"]
    /\ UNCHANGED <<pc, attaching, cleanupState, calls, written, failure, disk, now>>

\* The timer of attachToHubspot fires: for the call made by process(), which
\* then ends, or for one made by the attach handler, which then answers.
HubspotTimer(id) ==
    /\ id \in DOMAIN processingJobs
    /\ pc[id] = "hubspot" \/ attaching[id] > 0
    /\ LET job == AttachEnd(processingJobs[id])
       IN IF pc[id] = "hubspot"
          THEN /\ Apply(id, Waiting(ProcessComplete(job), "done"))
               /\ UNCHANGED attaching
          ELSE /\ processingJobs' = Put(job)
               /\ attaching' = [attaching EXCEPT ![id] = @ - 1]
               /\ UNCHANGED <<pc, cleanupState, calls, failure>>
    /\ UNCHANGED <<lateClose, written, disk, now>>

\* The unlink issued by cleanup() ends; a failure is ignored.
CleanupDone(id, ok) ==
    /\ id \in DOMAIN processingJobs
    /\ cleanupState[id] = "issued"
    /\ cleanupState' = [cleanupState EXCEPT ![id] = "done"]
    /\ disk' = IF ok THEN Unlink(disk, processingJobs[id].results.wavFile[1]) ELSE disk
    /\ UNCHANGED <<processingJobs, pc, lateClose, attaching, calls, written, failure, now>>

\* A response that carries the texts whatever the status.
StatusResponseAlways(processId, job) ==
    [code |-> 200, processId |-> processId, status |-> job.status,
     steps |-> job.steps, metadata |-> job.metadata,
     transcription |-> job.results.transcription,
     summary |-> job.results.summary]
    @@ (IF job.status = "error" THEN [error |-> job.error] ELSE NoData)

\* The object GET /api/status/:processId builds for a job.
StatusResponse(processId, job) ==
    [code |-> 200, processId |-> processId, status |-> job.status,
     steps |-> job.steps, metadata |-> job.metadata]
    @@ (IF job.status = "completed"
        THEN [transcription |-> job.results.transcription,
              summary |-> job.results.summary]
        ELSE NoData)
    @@ (IF job.status = "error" THEN [error |-> job.error] ELSE NoData)

\* res.json: JSON.stringify leaves out the keys whose value is undefined.
OptionalKeys == {"transcription", "summary", "error"}
Json(r) ==
    [k \in {k \in DOMAIN r : k \in OptionalKeys => r[k] # Undefined} |-> r[k]]

NotFound == [code |-> 404, error |-> "Process not found"]
NotCompleted == [code |-> 400, error |-> "Processing not completed"]
\* The attach handler answers when the timer of attachToHubspot has fired.
Deferred == [code |-> 0]
AttachDoneReply == [code |-> 200, success |-> TRUE]

\* What GET /api/status/:processId answers in the current state.
StatusReply(processId) ==
    LET job == Get(processId)
    IN IF job = Undefined THEN NotFound ELSE Json(StatusResponse(processId, job[1]))

\* GET /api/status/:processId
StatusQuery(processId) == UNCHANGED vars

\* A handler that tests only whether the job is known.
AttachReplyAnyStatus(processId) ==
    IF Get(processId) = Undefined THEN NotFound ELSE Deferred

\* What POST /api/hubspot-attach/:processId answers in the current state.
AttachReply(processId) ==
    LET job == Get(processId)
    IN IF job = Undefined THEN NotFound
       ELSE IF job[1].status # "completed" THEN NotCompleted
       ELSE Deferred

\* POST /api/hubspot-attach/:processId: not found, not completed, or the
\* call of attachToHubspot up to its timer.
HubspotAttach(processId) ==
    IF AttachReply(processId) # Deferred
    THEN UNCHANGED vars
    ELSE /\ attaching[processId] < MaxAttach
         /\ processingJobs' = Put(AttachBegin(Get(processId)[1]))
         /\ attaching' = [attaching EXCEPT ![processId] = @ + 1]
         /\ UNCHANGED <<pc, lateClose, cleanupState, calls, written, failure, disk, now>>

\* The steps of the program on the jobs of ids.
Steps(ids) ==
    \/ Tick
    \/ SubmitNoFile
    \/ \E b \in RequestBodies, l \in LaunchOutcomes : FreshId \in ids /\ Submit(b, l)
    \/ \E id \in ids, code \in ExitCodes, l \in LaunchOutcomes : FfmpegClose(id, code, l)
    \/ \E id \in ids : FfmpegError(id)
    \/ \E id \in ids, code \in ExitCodes : WhisperClose(id, code)
    \/ \E id \in ids : WhisperError(id)
    \/ \E id \in ids : TimerFires(id)
    \/ \E id \in ids, read \in {Undefined} \cup {Some(t) : t \in RawTexts} : ReadFileDone(id, read)
    \/ \E id \in ids, ok \in BOOLEAN : WriteTranscriptDone(id, ok)
    \/ \E id \in ids, ok \in BOOLEAN, l \in LaunchOutcomes : UnlinkTxtDone(id, ok, l)
    \/ \E id \in ids, code \in ExitCodes, out \in RawTexts : OllamaClose(id, code, out)
    \/ \E id \in ids : OllamaError(id)
    \/ \E id \in ids, ok \in BOOLEAN : WriteSummaryDone(id, ok)
    \/ \E id \in ids : LateClose(id)
    \/ \E id \in ids : HubspotTimer(id)
    \/ \E id \in ids, ok \in BOOLEAN : CleanupDone(id, ok)
    \/ \E id \in RequestIds : StatusQuery(id)
    \/ \E id \in RequestIds : HubspotAttach(id)

Next == Steps(Ids)

Spec == Init /\ [][Next]_vars

\* A timer that was set fires: the timer of attachToHubspot is the only
\* thing a call of it waits for.
\* What process() of job id waits for happens: the tool it spawned closes
\* or fails to launch, its timer fires, its file-system call returns.
PipelineStep(id) ==
    \/ \E code \in ExitCodes, l \in LaunchOutcomes : FfmpegClose(id, code, l)
    \/ FfmpegError(id)
    \/ \E code \in ExitCodes : WhisperClose(id, code)
    \/ WhisperError(id)
    \/ TimerFires(id)
    \/ \E read \in {Undefined} \cup {Some(t) : t \in RawTexts} : ReadFileDone(id, read)
    \/ \E ok \in BOOLEAN : WriteTranscriptDone(id, ok)
    \/ \E ok \in BOOLEAN, l \in LaunchOutcomes : UnlinkTxtDone(id, ok, l)
    \/ \E code \in ExitCodes, out \in RawTexts : OllamaClose(id, code, out)
    \/ OllamaError(id)
    \/ \E ok \in BOOLEAN : WriteSummaryDone(id, ok)

\* It is followed on the jobs of the first FairJobs submissions.
FairIds == 1..FairJobs
FairSpec ==
    /\ Init /\ [][Steps(FairIds)]_vars
    /\ \A id \in FairIds : WF_vars(HubspotTimer(id)) /\ WF_vars(PipelineStep(id))

\* ------------------------------------------------------------ claims
Jobs == DOMAIN processingJobs
StepStatus(id, stage) == processingJobs[id].steps[stage].status
Terminal(id) == processingJobs[id].status \in {"completed", "error"}

\* C1: in every reachable state of every job, overallStatus = completed
\* implies that the conversion, transcription and summary stages are all
\* completed (the attach stage may still be pending).
C1_CompletedImpliesStagesCompleted ==
    \A id \in Jobs :
        processingJobs[id].status = "completed" =>
            \A stage \in Tools : StepStatus(id, stage) = "completed"

\* A job has completed and its attach stage is still pending.
C1_Witness ==
    \E id \in Jobs :
        /\ processingJobs[id].status = "completed"
        /\ StepStatus(id, "hubspot") = "pending"

\* C2: in every reachable state of every job, overallStatus = error implies
\* that exactly one stage is in status error and that every stage after it,
\* in the order conversion, transcription, summary, attach, is pending.
C2_ErrorImpliesOneFailedStage ==
    \A id \in Jobs :
        processingJobs[id].status = "error" =>
            \E i \in 1..Len(StageNames) :
                /\ StepStatus(id, StageNames[i]) = "error"
                /\ \A k \in 1..Len(StageNames) :
                      /\ k # i => StepStatus(id, StageNames[k]) # "error"
                      /\ k > i => StepStatus(id, StageNames[k]) = "pending"

\* Once stage i of a job is in error, or its adapter has failed without the
\* stage being marked, no later stage has been or is invoked.
HaltedAfterFailure(jobs, count) ==
    \A id \in DOMAIN jobs : \A i \in 1..Len(StageNames) :
        (jobs[id].steps[StageNames[i]].status = "error" \/ failure[id].stage = StageNames[i]) =>
            \A k \in (i + 1)..Len(StageNames) :
                /\ count[id][StageNames[k]] = 0
                /\ jobs[id].steps[StageNames[k]].status = "pending"

\* C3: when a stage's adapter fails the pipeline halts: no adapter of a later
\* stage is ever invoked for that job and the later stages stay pending
\* forever; and a pipeline run invokes no adapter more than once.
C3_PipelineHaltsOnFailure ==
    /\ [](HaltedAfterFailure(processingJobs, calls)
          /\ \A id \in Ids : \A stage \in DOMAIN calls[id] : calls[id][stage] <= 1)
    /\ [][\A id \in Jobs : \A stage \in Tools :
            /\ StepStatus(id, stage) = "error" =>
                  /\ processingJobs'[id].steps[stage].status = "error"
                  /\ calls'[id] = calls[id]
            /\ failure[id].stage = stage => calls'[id] = calls[id]]_vars

\* The conversion failed, the job has ended and the child's late 'close' has
\* been handled: the other two adapters were never invoked.
C3_Witness ==
    \E id \in Jobs :
        /\ StepStatus(id, "conversion") = "error"
        /\ failure[id].kind = "launch"
        /\ lateClose[id] = "none"
        /\ pc[id] = "done"
        /\ calls[id]["transcription"] = 0
        /\ calls[id]["summary"] = 0

\* C4: every kind of stage failure (the tool cannot be launched, the tool
\* exits non-zero, the transcript file is absent or unreadable after a zero
\* exit, the summarizer exits zero with empty output) ends the same way: the
\* failing stage is error, overallStatus is error and errorDetail is set.
C4_FailuresEndAlike ==
    \A id \in Jobs :
        failure[id].kind # "none" =>
            /\ StepStatus(id, failure[id].stage) = "error"
            /\ processingJobs[id].status = "error"
            /\ processingJobs[id].error # Undefined

\* C5: for every job whose conversion produced a converted-audio file, the
\* deletion of that file has been attempted once the job is in a terminal
\* overallStatus, completed or error.
C5_CleanupAttemptedWhenTerminal ==
    \A id \in Jobs :
        (Terminal(id) /\ processingJobs[id].results.wavFile # Undefined) =>
            cleanupState[id] # "none"

NonEmptyText(v) == v # Undefined /\ v[1] # <<>>

\* C6: whenever a job has overallStatus = completed, its transcription text
\* and its summary text are both non-empty strings.
C6_CompletedHasNonEmptyTexts ==
    \A id \in Jobs :
        processingJobs[id].status = "completed" =>
            /\ NonEmptyText(processingJobs[id].results.transcription)
            /\ NonEmptyText(processingJobs[id].results.summary)

\* The file of job id at one of the given paths, holding its own data.
Stored(id, paths) == \E f \in disk : f.path \in paths /\ f.by = id

\* C7: whenever a job has overallStatus = completed, a transcript artifact and
\* a summary artifact written for that job exist on stable storage.
C7_CompletedHasArtifacts ==
    \A id \in Jobs :
        processingJobs[id].status = "completed" =>
            Stored(id, TranscriptOf(id)) /\ Stored(id, SummaryOf(id))

\* C8: two distinct jobs never write the same artifact path (transcript,
\* summary or converted audio).
C8_NoSharedArtifactPath ==
    \A a, b \in Ids : a # b => written[a] \cap written[b] = {}

\* C9: a status query's response contains the transcription and the summary
\* exactly when overallStatus is completed and an error detail exactly when
\* it is error; errorDetail is never set while overallStatus is started,
\* processing or completed.
C9_StatusResponseFields ==
    \A id \in Jobs :
        LET r == StatusReply(id)
        IN /\ "transcription" \in DOMAIN r <=> r.status = "completed"
           /\ "summary" \in DOMAIN r <=> r.status = "completed"
           /\ "error" \in DOMAIN r <=> r.status = "error"
           /\ processingJobs[id].error # Undefined => processingJobs[id].status = "error"

\* One job is completed and answers with its texts while another is in error
\* and answers with its error detail.
C9_Witness ==
    \E a, b \in Jobs :
        /\ StatusReply(a).status = "completed"
        /\ {"transcription", "summary"} \subseteq DOMAIN StatusReply(a)
        /\ StatusReply(b).status = "error"
        /\ "error" \in DOMAIN StatusReply(b)

\* C10: a status query or an attach request for an identifier no submission
\* returned is answered not-found, never with a default or empty record, and
\* creates no record: a record enters the registry by a submission only.
C10_UnknownIdNotFound ==
    /\ [](\A id \in RequestIds \ Jobs :
            StatusReply(id) = NotFound /\ AttachReply(id) = NotFound)
    /\ [][\A id \in RequestIds :
            (id \notin Jobs /\ id \in DOMAIN processingJobs') =>
                (id = FreshId /\ \E b \in RequestBodies, l \in LaunchOutcomes : Submit(b, l))]_vars

\* Some submission was made and some identifier is still unknown.
C10_Witness ==
    /\ Jobs # {}
    /\ \E id \in RequestIds \ Jobs : StatusReply(id) = NotFound

\* C11: an attach request for a known job whose overallStatus is started,
\* processing or error is answered with the precondition-failed signal, does
\* not invoke the attach adapter and leaves the attach stage and the rest of
\* the job record as they were.
C11_AttachRefusedUnlessCompleted ==
    /\ [](\A id \in Jobs :
            processingJobs[id].status # "completed" => AttachReply(id) = NotCompleted)
    /\ [][\A id \in Jobs :
            (processingJobs[id].status # "completed" /\ HubspotAttach(id)) =>
                /\ processingJobs'[id] = processingJobs[id]
                /\ attaching'[id] = attaching[id]
                /\ calls'[id] = calls[id]]_vars

\* One job is processing and another is in error: an attach request for
\* either is refused, and the attach stage of both is pending.
C11_Witness ==
    \E a, b \in Jobs :
        /\ processingJobs[a].status = "processing"
        /\ processingJobs[b].status = "error"
        /\ AttachReply(a) = NotCompleted /\ AttachReply(b) = NotCompleted
        /\ ENABLED HubspotAttach(a) /\ ENABLED HubspotAttach(b)
        /\ StepStatus(a, "hubspot") = "pending" /\ StepStatus(b, "hubspot") = "pending"

\* C12: an attach request for a job whose overallStatus is completed invokes
\* the attach adapter again and the attach stage eventually becomes completed;
\* meanwhile overallStatus stays completed and the status query keeps
\* answering with the same transcription and summary.
C12_AttachOnCompletedCompletes ==
    /\ \A id \in Ids :
          (id \in Jobs /\ attaching[id] > 0)
              ~> (id \in Jobs /\ StepStatus(id, "hubspot") = "completed")
    /\ [][\A id \in Jobs :
            processingJobs[id].status = "completed" =>
                /\ StatusReply(id)'.status = "completed"
                /\ StatusReply(id)'.transcription = StatusReply(id).transcription
                /\ StatusReply(id)'.summary = StatusReply(id).summary
                /\ (AttachReply(id) = Deferred /\ attaching[id] < MaxAttach /\ HubspotAttach(id)) =>
                      /\ attaching'[id] = attaching[id] + 1
                      /\ processingJobs'[id].steps["hubspot"].status = "processing"]_vars

\* Two attach requests for a completed job have been answered: none is in
\* flight and the attach stage is completed.
C12_Witness ==
    \E id \in Jobs :
        /\ processingJobs[id].status = "completed"
        /\ attaching[id] = 0
        /\ StepStatus(id, "hubspot") = "completed"

\* The request a job was submitted with: the bodies differ in what the
\* handler copies, so the metadata of the record tells which one it was.
RequestOf(id) ==
    CHOOSE b \in RequestBodies : SubmissionMetadata(b) = processingJobs[id].metadata

\* C13: a job submitted with the attach request set, whose three adapters
\* succeeded, has its attach stage completed once its pipeline has ended with
\* overallStatus = completed (no later attach request being in flight).
C13_RequestedAttachCompletes ==
    \A id \in Jobs :
        (/\ Truthy(RequestOf(id).attachToHubspot)
         /\ processingJobs[id].status = "completed"
         /\ pc[id] = "done"
         /\ attaching[id] = 0) =>
            StepStatus(id, "hubspot") = "completed"

\* The job was submitted without the attach request.
Unrequested(id) == ~Truthy(RequestOf(id).attachToHubspot)

\* C14, as stated: a job submitted without an attach request has its attach
\* stage pending at every point of its pipeline run and forever after it
\* reaches completed.
C14_UnrequestedAttachStaysPending ==
    \A id \in Jobs : Unrequested(id) => StepStatus(id, "hubspot") = "pending"

\* C14, amended: a job submitted without an attach request has its attach
\* stage pending at every point of its pipeline run, and after it reaches
\* completed the stage leaves pending only by an attach request for that job.
C14_PendingUntilPostHocAttach ==
    /\ [](\A id \in Jobs :
            (Unrequested(id) /\ (pc[id] # "done" \/ processingJobs[id].status # "completed")) =>
                StepStatus(id, "hubspot") = "pending")
    /\ [][\A id \in Jobs :
            (/\ Unrequested(id)
             /\ StepStatus(id, "hubspot") = "pending"
             /\ processingJobs'[id].steps["hubspot"].status # "pending") =>
                /\ processingJobs[id].status = "completed"
                /\ AttachReply(id) = Deferred
                /\ HubspotAttach(id)]_vars

\* A job submitted without the request has completed, its converted audio
\* has been removed, and its attach stage is still pending.
C14_Witness ==
    \E id \in Jobs :
        /\ Unrequested(id)
        /\ processingJobs[id].status = "completed"
        /\ cleanupState[id] = "done"
        /\ StepStatus(id, "hubspot") = "pending"

\* C16: once a submission has created a job record, no pipeline step, status
\* query, attach request or other submission removes it or replaces it by
\* another job's record: a lookup by its identifier succeeds in every later
\* state and finds the record of that submission.
C16_RecordsAreKept ==
    /\ [](\A id \in Jobs :
            /\ Get(id) # Undefined
            /\ Get(id)[1].processId = id
            /\ StatusReply(id).code = 200)
    /\ [][\A id \in Jobs :
            /\ id \in DOMAIN processingJobs'
            /\ processingJobs'[id].processId = processingJobs[id].processId
            /\ processingJobs'[id].audioFile = processingJobs[id].audioFile
            /\ processingJobs'[id].metadata = processingJobs[id].metadata]_vars

\* Two submissions were made, both pipelines have ended, an attach request
\* was served, and both records are still found.
C16_Witness ==
    /\ Cardinality(Jobs) >= 2
    /\ \A id \in Jobs : Terminal(id) /\ Get(id)[1].processId = id
    /\ \E id \in Jobs : StepStatus(id, "hubspot") = "completed"

\* A status query for job id is served at once and answers with the status
\* and the stages of the current record.
AnswersFromRecord(id) ==
    /\ ENABLED StatusQuery(id)
    /\ StatusReply(id).code = 200
    /\ StatusReply(id).status = processingJobs[id].status
    /\ StatusReply(id).steps = processingJobs[id].steps

\* C17: from the moment the identifier is returned a status query for it is
\* always enabled and answers from the current record without waiting for
\* any stage; a query issued before any stage has completed answers with
\* overallStatus started or processing.  (A stage that failed is taken to
\* have ended too: the query is one that finds every stage pending or
\* processing.)
C17_EarlyQueryStartedOrProcessing ==
    \A id \in Jobs :
        /\ AnswersFromRecord(id)
        /\ (\A stage \in DOMAIN processingJobs[id].steps :
                StepStatus(id, stage) \in {"pending", "processing"}) =>
              StatusReply(id).status \in {"started", "processing"}

\* The place of a value of overallStatus in started -> processing ->
\* (completed | error).
StatusRank(status) ==
    CASE status = "started" -> 0
      [] status = "processing" -> 1
      [] status \in {"completed", "error"} -> 2

\* C18: a job's overallStatus only moves forward along started -> processing
\* -> (completed | error): it never returns to an earlier value, and once it
\* is completed or error no later event (late process events, status
\* queries, attach requests) changes it.
C18_StatusMovesForward ==
    /\ [](\A id \in Jobs :
            processingJobs[id].status \in {"started", "processing", "completed", "error"})
    /\ [][\A id \in Jobs :
            /\ StatusRank(processingJobs[id].status) <= StatusRank(processingJobs'[id].status)
            /\ Terminal(id) => processingJobs'[id].status = processingJobs[id].status]_vars

\* One job failed at launch and its child's late 'close' has been handled;
\* another completed and an attach request for it has been served.
C18_Witness ==
    \E a, b \in Jobs :
        /\ processingJobs[a].status = "error"
        /\ failure[a] = [kind |-> "launch", stage |-> "conversion"]
        /\ StepStatus(a, "conversion") = "error"
        /\ processingJobs[a].steps["conversion"].error = "FFmpeg conversion failed"
        /\ processingJobs[b].status = "completed"
        /\ StepStatus(b, "hubspot") = "completed"

\* C19: within one job the stages run in the order conversion,
\* transcription, summary, attach: a stage has left pending only if the
\* stage before it is recorded as completed, so at most one stage of a job is
\* processing and no stage that left pending comes after a pending one.
C19_StagesRunInOrder ==
    \A id \in Jobs :
        /\ \A k \in 2..Len(StageNames) :
              StepStatus(id, StageNames[k]) # "pending" =>
                  StepStatus(id, StageNames[k - 1]) = "completed"
        /\ Cardinality({k \in 1..Len(StageNames) :
                          StepStatus(id, StageNames[k]) = "processing"}) <= 1

\* The summary stage of a job is processing after its conversion and its
\* transcription completed, and the attach stage of another is processing.
C19_Witness ==
    \E a, b \in Jobs :
        /\ StepStatus(a, "conversion") = "completed"
        /\ StepStatus(a, "transcription") = "completed"
        /\ StepStatus(a, "summary") = "processing"
        /\ StepStatus(b, "hubspot") = "processing"

\* C20: once a job's overallStatus is completed or error, no later action
\* changes the states and payloads of its conversion, transcription and
\* summary stages, its results, its metadata or its errorDetail; only the
\* attach stage may still change, and only through an attach request (the
\* handler's call of attachToHubspot and the timer that ends it).
C20_TerminalRecordIsFrozen ==
    [][\A id \in Jobs :
         Terminal(id) =>
             /\ \A stage \in Tools :
                   processingJobs'[id].steps[stage] = processingJobs[id].steps[stage]
             /\ processingJobs'[id].results = processingJobs[id].results
             /\ processingJobs'[id].metadata = processingJobs[id].metadata
             /\ processingJobs'[id].error = processingJobs[id].error
             /\ processingJobs'[id].steps["hubspot"] # processingJobs[id].steps["hubspot"] =>
                   \/ HubspotAttach(id)
                   \/ attaching[id] > 0 /\ HubspotTimer(id)]_vars

\* C21: a status query never observes a partially applied stage update: it
\* never answers with a stage in status error while overallStatus is still
\* processing, and never with overallStatus = error without a stage in
\* status error.
C21_NoPartialStageUpdate ==
    \A id \in Jobs :
        LET r == StatusReply(id)
        IN /\ r.status = "processing" =>
                \A stage \in DOMAIN r.steps : r.steps[stage].status # "error"
           /\ r.status = "error" =>
                \E stage \in DOMAIN r.steps : r.steps[stage].status = "error"

\* The tasks in flight that write the record of job id: its process() call
\* and the attachToHubspot calls made by the attach handler.
Writers(id) ==
    (IF pc[id] \in {"none", "done"} THEN 0 ELSE 1) + attaching[id]

\* C22: each job record has a single writer at a time: the pipeline run and
\* the post-hoc attach invocations of one job never overlap, also when
\* several attach requests for the same completed job arrive concurrently.
C22_SingleWriterPerJob ==
    \A id \in Jobs : Writers(id) <= 1

\* C23: pipelines of different jobs are independent: a pipeline step, failure,
\* cleanup or attach invocation of one job leaves the record of every other
\* job unchanged, and so does a submission, under any interleaving.
C23_JobsAreIndependent ==
    [][/\ \A a, b \in Jobs :
             a # b => \/ processingJobs'[a] = processingJobs[a]
                      \/ processingJobs'[b] = processingJobs[b]
       /\ DOMAIN processingJobs' # Jobs =>
             \A a \in Jobs : processingJobs'[a] = processingJobs[a]]_vars

\* Two pipelines overlap: one job waits for ollama while the other waits for
\* ffmpeg, each with the stages of its own run.
C23_Witness ==
    \E a, b \in Jobs :
        /\ pc[a] = "ollama" /\ pc[b] = "ffmpeg"
        /\ StepStatus(a, "summary") = "processing"
        /\ StepStatus(b, "conversion") = "processing"
        /\ StepStatus(b, "summary") = "pending"

\* C24: the transcription stage is marked completed only after the transcript
\* artifact has been persisted, and the summary stage only after the summary
\* artifact has been persisted: no status query finds one of these stages
\* completed while a file for it has not yet been written.
C24_CompletedAfterPersisted ==
    \A id \in Jobs :
        LET r == StatusReply(id)
        IN /\ r.steps["transcription"].status = "completed" =>
                \E f \in disk : f.path \in TranscriptOf(id)
           /\ r.steps["summary"].status = "completed" =>
                \E f \in disk : f.path \in SummaryOf(id)

\* C25: if every spawned tool eventually exits or fails to launch, every
\* submitted job eventually reaches overallStatus completed or error: no job
\* stays in started or processing forever.
C25_EveryJobEnds ==
    \A id \in FairIds : (id \in Jobs) ~> (id \in Jobs /\ Terminal(id))

\* A job went through all three tools and completed.
C25_Witness ==
    \E id \in Jobs :
        /\ processingJobs[id].status = "completed"
        /\ pc[id] = "done"
        /\ \A stage \in Tools : calls[id][stage] = 1

\* The place of a stage status in pending -> processing -> (completed | error).
StepRank(status) ==
    CASE status = "pending" -> 0
      [] status = "processing" -> 1
      [] status \in {"completed", "error"} -> 2

\* C26: the status of each of the stages conversion, transcription and
\* summary only moves pending -> processing -> (completed | error): once a
\* status query could find such a stage completed or in error, the stage
\* never shows another status.
C26_StageStatusMovesForward ==
    [][\A id \in Jobs : \A stage \in Tools :
         LET before == StatusReply(id).steps[stage].status
             after == StatusReply(id)'.steps[stage].status
         IN /\ StepRank(before) <= StepRank(after)
            /\ before \in {"completed", "error"} => after = before]_vars

\* C27: when the submission handler sends its acknowledgment, which reports
\* the status started, the record in the registry already has overallStatus
\* processing and its conversion stage processing; no status query made
\* after the acknowledgment finds overallStatus started.
C27_NeverObservedStarted ==
    /\ [](\A id \in Jobs :
            /\ StatusReply(id).status # "started"
            /\ StatusReply(id).steps["conversion"].status # "pending")
    /\ [][\A id \in RequestIds :
            (id \notin Jobs /\ id \in DOMAIN processingJobs') =>
                \E b \in RequestBodies, l \in LaunchOutcomes :
                    /\ Submit(b, l)
                    /\ SubmitReply(id).status = "started"
                    /\ AtAcknowledgment(id, b, l).status = "processing"
                    /\ AtAcknowledgment(id, b, l).steps["conversion"].status = "processing"]_vars

\* A submission has just been acknowledged with status started: ffmpeg is
\* running and the status query answers processing.
C27_Witness ==
    \E id \in Jobs :
        /\ SubmitReply(id).status = "started"
        /\ pc[id] = "ffmpeg"
        /\ StatusReply(id).status = "processing"
        /\ StatusReply(id).steps["conversion"].status = "processing"
        /\ \A stage \in Tools \ {"conversion"} : StepStatus(id, stage) = "pending"

====
